---- MODULE Spec2Model ----
(***************************************************************************)
(* Model of the event payload serializers                                  *)
(* (data_handler/handler_tools/data_parser/serializers.py) and of the      *)
(* Telegram notification queue (web_app/telegram/utils.py).                *)
(*                                                                         *)
(* A Python str is a sequence of one-character strings.  The character     *)
(* U+00B2 (SUPERSCRIPT TWO), for which str.isdigit() is true although it   *)
(* is no decimal digit, is written "sup2".                                 *)
(* An int is a pair of a sign and a magnitude; a magnitude is a sequence   *)
(* of decimal digits, least significant first, without high-order zeros    *)
(* (zero is the empty sequence), so that no value is cut to machine width. *)
(* A decimal.Decimal is the triple (sign, coefficient, exponent) that      *)
(* Decimal.as_tuple() shows.                                               *)
(***************************************************************************)
EXTENDS Integers, Sequences, FiniteSets, TLC

(***************************************************************************)
(* Bounds of the model.                                                    *)
(***************************************************************************)
\* longest run of "0" characters inside a generated hexadecimal string
MaxZeros == 24
\* longest string generated exhaustively over an alphabet
MaxLen == 3
\* number of hexadecimal digits an address is padded to (the canonical
\* width, scaled down)
AddrWidth == 2
\* chat identifiers are 1..MaxId
MaxId == 2
\* notifications enqueued in one run
MaxEnq == 3
\* send_message calls in one run
MaxSent == 2
\* longest address generated exhaustively
MaxAddrLen == 5
\* attribute assignments on one record
MaxAssign == 1

(***************************************************************************)
(* Program constants.                                                      *)
(***************************************************************************)
\* the exponent of Decimal("1e27")
ScaleExp == 27
\* precision of the decimal context the division runs in (the default one)
Prec == 28

(***************************************************************************)
(* Strings.                                                                *)
(***************************************************************************)
RECURSIVE Strings(_, _)
\* all strings over alphabet `cs` of length at most n
Strings(cs, n) ==
  IF n = 0 THEN {<< >>}
  ELSE LET shorter == Strings(cs, n - 1)
       IN shorter \cup {Append(s, c) : s \in {t \in shorter : Len(t) = n - 1}, c \in cs}

\* n copies of character c
Repeat(c, n) == [i \in 1..n |-> c]

\* str.startswith
startswith(s, p) == Len(s) >= Len(p) /\ SubSeq(s, 1, Len(p)) = p

\* the literal "0x"
Ox == <<"0", "x">>

AsciiDigits == {"0", "1", "2", "3", "4", "5", "6", "7", "8", "9"}

\* the value of a digit character in int()'s digit table
DigitValue(c) ==
  CASE c = "0" -> 0 [] c = "1" -> 1 [] c = "2" -> 2 [] c = "3" -> 3
    [] c = "4" -> 4 [] c = "5" -> 5 [] c = "6" -> 6 [] c = "7" -> 7
    [] c = "8" -> 8 [] c = "9" -> 9
    [] c \in {"a", "A"} -> 10 [] c \in {"b", "B"} -> 11
    [] c \in {"c", "C"} -> 12 [] c \in {"d", "D"} -> 13
    [] c \in {"e", "E"} -> 14 [] c \in {"f", "F"} -> 15
    [] OTHER -> 99

IsSpace(c) == c = " "

RECURSIVE LStrip(_)
LStrip(s) == IF s # << >> /\ IsSpace(s[1]) THEN LStrip(Tail(s)) ELSE s

RECURSIVE RStrip(_)
RStrip(s) ==
  IF s # << >> /\ IsSpace(s[Len(s)]) THEN RStrip(SubSeq(s, 1, Len(s) - 1)) ELSE s

\* str.strip
Strip(s) == RStrip(LStrip(s))

(***************************************************************************)
(* Magnitudes: unbounded naturals as decimal digit sequences.              *)
(***************************************************************************)
RECURSIVE MulAdd(_, _, _)
\* n * m + c, for a magnitude n and small naturals m, c
MulAdd(n, m, c) ==
  IF n = << >>
  THEN IF c = 0 THEN << >> ELSE <<c % 10>> \o MulAdd(<< >>, m, c \div 10)
  ELSE LET v == n[1] * m + c
       IN <<v % 10>> \o MulAdd(Tail(n), m, v \div 10)

RECURSIVE StripHigh(_)
\* remove high-order zeros
StripHigh(n) ==
  IF n # << >> /\ n[Len(n)] = 0 THEN StripHigh(SubSeq(n, 1, Len(n) - 1)) ELSE n

RECURSIVE FromDigits(_, _, _)
\* the magnitude written by the digit characters ds in the given base,
\* accumulated left to right from acc
FromDigits(ds, base, acc) ==
  IF ds = << >> THEN acc
  ELSE FromDigits(Tail(ds), base, MulAdd(acc, base, DigitValue(ds[1])))

\* n + 1
Inc(n) == MulAdd(n, 1, 1)

(***************************************************************************)
(* int(s, 16)                                                              *)
(***************************************************************************)
ValueError == [ok |-> FALSE, exc |-> "ValueError"]

\* the digit part of an integer literal: digits with single underscores
\* between them
WellFormedDigits(v, base) ==
  /\ v # << >>
  /\ v[1] # "_"
  /\ v[Len(v)] # "_"
  /\ \A i \in 1..Len(v) : v[i] = "_" \/ DigitValue(v[i]) < base
  /\ \A i \in 1..(Len(v) - 1) : ~(v[i] = "_" /\ v[i + 1] = "_")

RemoveUnderscores(v) == SelectSeq(v, LAMBDA c : c # "_")

\* int(s, base=16) of a str: surrounding whitespace, an optional sign, an
\* optional 0x or 0X prefix (one underscore may follow it), then the digits.
\* Returns [ok |-> TRUE, sign, int] or ValueError.
PyIntHex(s) ==
  LET t == Strip(s)
      signed == t # << >> /\ t[1] \in {"+", "-"}
      neg == t # << >> /\ t[1] = "-"
      u == IF signed THEN Tail(t) ELSE t
      prefixed == Len(u) >= 2 /\ u[1] = "0" /\ u[2] \in {"x", "X"}
      w == IF prefixed THEN SubSeq(u, 3, Len(u)) ELSE u
      v == IF prefixed /\ w # << >> /\ w[1] = "_" THEN Tail(w) ELSE w
  IN IF WellFormedDigits(v, 16)
     THEN LET n == StripHigh(FromDigits(RemoveUnderscores(v), 16, << >>))
          IN [ok |-> TRUE, sign |-> IF neg /\ n # << >> THEN 1 ELSE 0, int |-> n]
     ELSE ValueError

(***************************************************************************)
(* decimal.Decimal                                                         *)
(***************************************************************************)
\* Decimal(n) of an int: exact, whatever the number of digits
DecimalOfInt(n) == [sign |-> n.sign, int |-> n.int, exp |-> 0]

\* round a coefficient to its digits above the lowest `drop`, ROUND_HALF_EVEN
RoundHalfEven(n, drop) ==
  LET kept == SubSeq(n, drop + 1, Len(n))
      top == n[drop]
      rest == \E i \in 1..(drop - 1) : n[i] # 0
      odd == kept # << >> /\ kept[1] % 2 = 1
      up == top > 5 \/ (top = 5 /\ (rest \/ odd))
  IN IF up THEN Inc(kept) ELSE kept

\* Decimal._fix: round a result to the context precision
Fix(d, prec) ==
  IF Len(d.int) <= prec THEN d
  ELSE LET drop == Len(d.int) - prec
           r == RoundHalfEven(d.int, drop)
       IN IF Len(r) > prec
          THEN [sign |-> d.sign, int |-> Tail(r), exp |-> d.exp + drop + 1]
          ELSE [sign |-> d.sign, int |-> r, exp |-> d.exp + drop]

\* a / Decimal("1e<k>") in a context of precision prec: the quotient by a
\* power of ten has a's coefficient and the exponent lowered by k, and the
\* result of the operation is that quotient rounded to the context precision
TrueDivPow10(a, k, prec) ==
  Fix([sign |-> a.sign, int |-> a.int, exp |-> a.exp - k], prec)

RECURSIVE Normalize(_)
\* the value of a Decimal, whatever its representation: low-order zeros of
\* the coefficient moved into the exponent, and zero unsigned
Normalize(d) ==
  IF d.int = << >> THEN [sign |-> 0, int |-> << >>, exp |-> 0]
  ELSE IF d.int[1] = 0
       THEN Normalize([sign |-> d.sign, int |-> Tail(d.int), exp |-> d.exp + 1])
       ELSE d

\* Decimal.__eq__: numeric equality
DecEq(a, b) == Normalize(a) = Normalize(b)

\* Decimal(s) of a str, for the strings the amount alphabet writes: optional
\* surrounding whitespace, an optional sign, digits with an optional
\* fraction point.  Anything else raises decimal.InvalidOperation, which is
\* an ArithmeticError and no ValueError.
InvalidOperation == [ok |-> FALSE, exc |-> "InvalidOperation"]

DecimalOfStr(s) ==
  LET t == Strip(s)
      signed == t # << >> /\ t[1] \in {"+", "-"}
      neg == t # << >> /\ t[1] = "-"
      u == IF signed THEN Tail(t) ELSE t
      dots == {i \in 1..Len(u) : u[i] = "."}
      digits == SelectSeq(u, LAMBDA c : c # ".")
      frac == IF dots = {} THEN 0 ELSE Len(u) - (CHOOSE i \in dots : TRUE)
  IN IF /\ Cardinality(dots) <= 1
        /\ digits # << >>
        /\ \A i \in 1..Len(digits) : digits[i] \in AsciiDigits
     THEN LET n == StripHigh(FromDigits(digits, 10, << >>))
          IN [ok |-> TRUE,
              value |-> [sign |-> IF neg THEN 1 ELSE 0, int |-> n, exp |-> 0 - frac]]
     ELSE InvalidOperation

\* the characters c with c.isdigit(): the decimal digits and, among others,
\* the superscript digits
IsDigitChars == AsciiDigits \cup {"sup2"}

\* str.isdigit
isdigit(s) == s # << >> /\ \A i \in 1..Len(s) : s[i] \in IsDigitChars

(***************************************************************************)
(* shared.helpers.add_leading_zeros                                        *)
(***************************************************************************)
\* str.zfill for a string without sign
zfill(s, width) == IF Len(s) >= width THEN s ELSE Repeat("0", width - Len(s)) \o s

\* the 0x prefix followed by the rest of the address, padded with leading
\* zeros to the canonical width
add_leading_zeros(hash) == Ox \o zfill(SubSeq(hash, 3, Len(hash)), AddrWidth)

(***************************************************************************)
(* The field validators.  A validator returns [ok |-> TRUE, value] or      *)
(* raises: [ok |-> FALSE, exc, msg].                                       *)
(***************************************************************************)
Return(v) == [ok |-> TRUE, value |-> v]

Raise(exc, text, field, value) ==
  [ok |-> FALSE, exc |-> exc, msg |-> [text |-> text, field |-> field, value |-> value]]

\* DataAccumulatorsSyncEvent.hex_to_decimal
hex_to_decimal(v) ==
  LET n == PyIntHex(v)
  IN IF n.ok
     THEN Return(TrueDivPow10(DecimalOfInt(n), ScaleExp, Prec))
     ELSE Raise("ValueError", "invalid literal for int() with base 16: %r", "", v)

\* the validator without the padding call
validate_valid_addresses_unpadded(value, field_name) ==
  IF ~startswith(value, Ox)
  THEN Raise("ValueError", "Invalid address provided for %s", field_name, << >>)
  ELSE Return(value)

\* the validator putting a prefix of its own before the padded address
validate_valid_addresses_reprefixed(value, field_name) ==
  IF ~startswith(value, Ox)
  THEN Raise("ValueError", "Invalid address provided for %s", field_name, << >>)
  ELSE Return(Ox \o add_leading_zeros(value))

\* LiquidationEventData.validate_valid_addresses
validate_valid_addresses(value, field_name) ==
  IF ~startswith(value, Ox)
  THEN Raise("ValueError", "Invalid address provided for %s", field_name, << >>)
  ELSE Return(add_leading_zeros(value))

\* the validator without its try/except: the ValueError of int() leaves it
validate_valid_numbers_uncaught(value, field_name) ==
  LET n == PyIntHex(value)
  IN IF n.ok
     THEN Return(DecimalOfInt(n))
     ELSE Raise("ValueError", "invalid literal for int() with base 16: %r", "", value)

\* LiquidationEventData.validate_valid_numbers
validate_valid_numbers(value, field_name) ==
  LET n == PyIntHex(value)
  IN IF n.ok
     THEN Return(DecimalOfInt(n))
     ELSE Raise("ValueError", "%s field is not a valid hexadecimal number", field_name, << >>)

\* the validator without the padding call
validate_addresses_unpadded(value) ==
  IF ~startswith(value, Ox)
  THEN Raise("ValueError", "Invalid address provided: {value}", "", value)
  ELSE Return(value)

\* WithdrawalEventData.validate_addresses
validate_addresses(value) ==
  IF ~startswith(value, Ox)
  THEN Raise("ValueError", "Invalid address provided: {value}", "", value)
  ELSE Return(add_leading_zeros(value))

\* WithdrawalEventData.validate_amount
validate_amount(value) ==
  IF ~isdigit(value)
  THEN Raise("ValueError", "Amount field is not numeric", "", << >>)
  ELSE LET d == DecimalOfStr(value)
       IN IF d.ok THEN Return(d.value)
          ELSE Raise("InvalidOperation", "[<class 'decimal.ConversionSyntax'>]", "", << >>)

(***************************************************************************)
(* The three models.                                                       *)
(***************************************************************************)
Acc == "DataAccumulatorsSyncEvent"
Liq == "LiquidationEventData"
Wd == "WithdrawalEventData"

\* the fields of each model, in declaration order
Fields(cls) ==
  CASE cls = Acc -> <<"token", "lending_accumulator", "debt_accumulator">>
    [] cls = Liq -> <<"liquidator", "user", "debt_token", "debt_raw_amount",
                      "debt_face_amount", "collateral_token", "collateral_amount">>
    [] cls = Wd -> <<"user", "amount", "token">>

LiqAddressFields == {"liquidator", "user", "debt_token", "collateral_token"}
LiqNumberFields == {"debt_raw_amount", "debt_face_amount", "collateral_amount"}
WdAddressFields == {"user", "token"}

\* the validation of one field of a model: the validator registered for it,
\* and for a field without validator (token of DataAccumulatorsSyncEvent)
\* the str itself
FieldResult(cls, f, value) ==
  CASE cls = Acc /\ f = "token" -> Return(value)
    [] cls = Acc /\ f # "token" -> hex_to_decimal(value)
    [] cls = Liq /\ f \in LiqAddressFields -> validate_valid_addresses(value, f)
    [] cls = Liq /\ f \in LiqNumberFields -> validate_valid_numbers(value, f)
    [] cls = Wd /\ f \in WdAddressFields -> validate_addresses(value)
    [] cls = Wd /\ f = "amount" -> validate_amount(value)

RECURSIVE RunFieldsFirstError(_, _, _, _, _)
\* a validation that stops at the first field that fails
RunFieldsFirstError(cls, fs, raw, values, errors) ==
  IF fs = << >>
  THEN [status |-> "ok", record |-> values]
  ELSE LET f == Head(fs)
           r == FieldResult(cls, f, raw[f])
       IN IF r.ok
          THEN RunFieldsFirstError(cls, Tail(fs), raw, values @@ (f :> r.value), errors)
          ELSE IF r.exc = "ValueError"
               THEN [status |-> "ValidationError",
                     errors |-> <<[loc |-> f, type |-> "value_error", msg |-> r.msg]>>]
               ELSE [status |-> "raised", exc |-> r.exc]

RECURSIVE RunFields(_, _, _, _, _)
\* BaseModel validation of the fields fs of a raw mapping: each field in
\* declaration order; a ValueError of a validator becomes a line of the
\* ValidationError and validation goes on with the next field; any other
\* exception leaves the construction at once, as it is.
RunFields(cls, fs, raw, values, errors) ==
  IF fs = << >>
  THEN IF errors = << >>
       THEN [status |-> "ok", record |-> values]
       ELSE [status |-> "ValidationError", errors |-> errors]
  ELSE LET f == Head(fs)
           r == FieldResult(cls, f, raw[f])
       IN IF r.ok
          THEN RunFields(cls, Tail(fs), raw, values @@ (f :> r.value), errors)
          ELSE IF r.exc = "ValueError"
               THEN RunFields(cls, Tail(fs), raw, values,
                              Append(errors, [loc |-> f, type |-> "value_error", msg |-> r.msg]))
               ELSE [status |-> "raised", exc |-> r.exc]

\* cls(**raw)
Construct(cls, raw) == RunFields(cls, Fields(cls), raw, << >>, << >>)

(***************************************************************************)
(* The raw payloads the constructions are run on.                          *)
(***************************************************************************)
\* addresses: shorter than the canonical width, longer, and without prefix
AddrSamples == {<<"0", "x", "a">>,
                <<"0", "x", "a", "b", "c", "d", "e", "f">>,
                <<"a", "0", "x">>}

AddrAlphabet == {"0", "x", "a"}

\* hexadecimal amounts: plain, signed, prefixed, and no number
NumberSamples == {<<"f", "f">>, <<"-", "1">>, <<"0", "x", "1", "f">>, <<"z", "z">>}

NumberAlphabet == {"0", "f", "x", "-", "_", "z"}

\* accumulators: a head, a run of zeros and a tail, which reaches integers
\* of more digits than the context precision; and every short string
AccumulatorInputs ==
  {h \o Repeat("0", k) \o tl :
     h \in {<<"1">>, <<"f">>, <<"-", "2">>, <<"0", "x", "a">>},
     k \in 0..MaxZeros,
     tl \in {<< >>, <<"1">>, <<"8">>, <<"z">>}}
  \cup Strings(NumberAlphabet, MaxLen)

AmountAlphabet == {"0", "1", "-", ".", " ", "sup2"}

AccPayloads ==
  {[token |-> a, lending_accumulator |-> l, debt_accumulator |-> d] :
     a \in AddrSamples, l \in AccumulatorInputs, d \in {<<"f", "f">>, <<"z", "z">>}}

LiqBase ==
  [liquidator |-> <<"0", "x", "a">>, user |-> <<"0", "x", "a">>,
   debt_token |-> <<"0", "x", "a">>, debt_raw_amount |-> <<"f", "f">>,
   debt_face_amount |-> <<"f", "f">>, collateral_token |-> <<"0", "x", "a">>,
   collateral_amount |-> <<"f", "f">>]

LiqPayloads ==
  {a @@ n : a \in [LiqAddressFields -> AddrSamples], n \in [LiqNumberFields -> NumberSamples]}
  \cup {[LiqBase EXCEPT !["debt_raw_amount"] = s] : s \in Strings(NumberAlphabet, MaxLen)}
  \cup {[LiqBase EXCEPT !["debt_token"] = s] : s \in Strings(AddrAlphabet, MaxAddrLen)}

WdPayloads ==
  {[user |-> u, amount |-> m, token |-> k] :
     u \in AddrSamples, m \in Strings(AmountAlphabet, MaxLen), k \in AddrSamples}
  \cup {[user |-> u, amount |-> <<"1", "0">>, token |-> <<"0", "x", "a">>] :
          u \in Strings(AddrAlphabet, MaxAddrLen)}

\* values a caller assigns to an attribute of a record
AttrValues == {<<"z">>}

(***************************************************************************)
(* The objects of web_app/telegram/utils.py.                               *)
(***************************************************************************)
PyInt(i) == [type |-> "int", value |-> i]

\* the coroutine object a call of the coroutine function Queue.get returns
\* when it is not awaited
Coroutine == [type |-> "coroutine"]

NoValue == [type |-> "NoneType"]

VARIABLES
  model,      \* the class of the last construction
  payload,    \* the raw mapping it was given
  outcome,    \* what it returned or raised
  assigned,   \* attribute assignments made on the record since
  queue,      \* TelegramNotifications.__queue_to_send
  enq,        \* every identifier send_notification was given, in order
  send_calls, \* the chat_id of every bot.send_message call, in order
  ident,      \* the local of __call__
  cpc         \* where __call__ stands

vars == <<model, payload, outcome, assigned, queue, enq, send_calls, ident, cpc>>

normVars == <<model, payload, outcome, assigned>>
tgVars == <<queue, enq, send_calls, ident, cpc>>

Init ==
  /\ model = "none"
  /\ payload = << >>
  /\ outcome = [status |-> "none"]
  /\ assigned = 0
  /\ queue = << >>
  /\ enq = << >>
  /\ send_calls = << >>
  /\ ident = NoValue
  /\ cpc = "idle"

(***************************************************************************)
(* Event payload normalizer.                                               *)
(***************************************************************************)
\* one construction: the constructions are independent of each other, so a
\* behaviour follows a single record
NotConstructed == outcome.status = "none"

\* DataAccumulatorsSyncEvent(**raw)
ConstructAcc ==
  /\ NotConstructed
  /\ \E raw \in AccPayloads :
       /\ payload' = raw
       /\ outcome' = Construct(Acc, raw)
  /\ model' = Acc
  /\ assigned' = 0
  /\ UNCHANGED tgVars

\* LiquidationEventData(**raw)
ConstructLiq ==
  /\ NotConstructed
  /\ \E raw \in LiqPayloads :
       /\ payload' = raw
       /\ outcome' = Construct(Liq, raw)
  /\ model' = Liq
  /\ assigned' = 0
  /\ UNCHANGED tgVars

\* WithdrawalEventData(**raw)
ConstructWd ==
  /\ NotConstructed
  /\ \E raw \in WdPayloads :
       /\ payload' = raw
       /\ outcome' = Construct(Wd, raw)
  /\ model' = Wd
  /\ assigned' = 0
  /\ UNCHANGED tgVars

\* record.<field> = value: the models set no frozen configuration and no
\* validate_assignment, so the attribute is replaced and no validator runs
SetAttr ==
  /\ outcome.status = "ok"
  /\ assigned < MaxAssign
  /\ \E f \in DOMAIN outcome.record, v \in AttrValues :
       outcome' = [outcome EXCEPT !.record[f] = v]
  /\ assigned' = assigned + 1
  /\ UNCHANGED <<model, payload>>
  /\ UNCHANGED tgVars

Next == ConstructAcc \/ ConstructLiq \/ ConstructWd \/ SetAttr

Spec == Init /\ [][Next]_vars

(***************************************************************************)
(* TelegramNotifications.                                                  *)
(***************************************************************************)
\* await cls.__queue_to_send.put(telegram_id): the queue has no maxsize, so
\* put never waits
send_notification ==
  \E telegram_id \in 1..MaxId :
    /\ Len(enq) < MaxEnq
    /\ queue' = Append(queue, PyInt(telegram_id))
    /\ enq' = Append(enq, PyInt(telegram_id))
    /\ UNCHANGED <<send_calls, ident, cpc>>
    /\ UNCHANGED normVars

\* the consumer is started
Call ==
  /\ cpc = "idle"
  /\ cpc' = "while"
  /\ UNCHANGED <<queue, enq, send_calls, ident>>
  /\ UNCHANGED normVars

\* while ident := self.__queue_to_send.get(): get is called and not awaited,
\* so ident is the coroutine object, which is true, and the queue keeps its
\* items
WhileTest ==
  /\ cpc = "while"
  /\ ident' = Coroutine
  /\ cpc' = "send"
  /\ UNCHANGED <<queue, enq, send_calls>>
  /\ UNCHANGED normVars

\* await bot.send_message(chat_id=ident, ...) returns
SendMessageReturns ==
  /\ cpc = "send"
  /\ Len(send_calls) < MaxSent
  /\ send_calls' = Append(send_calls, ident)
  /\ cpc' = "while"
  /\ UNCHANGED <<queue, enq, ident>>
  /\ UNCHANGED normVars

\* await bot.send_message(chat_id=ident, ...) raises: __call__ ends with
\* the exception
SendMessageRaises ==
  /\ cpc = "send"
  /\ Len(send_calls) < MaxSent
  /\ send_calls' = Append(send_calls, ident)
  /\ cpc' = "raised"
  /\ UNCHANGED <<queue, enq, ident>>
  /\ UNCHANGED normVars

NextTg == send_notification \/ Call \/ WhileTest \/ SendMessageReturns \/ SendMessageRaises

SpecTg == Init /\ [][NextTg]_vars

(***************************************************************************)
(* The claims.                                                             *)
(***************************************************************************)
\* a construction was run and nothing was assigned to its record since
Constructed == outcome.status # "none" /\ assigned = 0

ConstructedOk == outcome.status = "ok" /\ assigned = 0

AddressFields(cls) ==
  CASE cls = Acc -> {"token"} [] cls = Liq -> LiqAddressFields [] cls = Wd -> WdAddressFields

AccumulatorFields == {"lending_accumulator", "debt_accumulator"}

\* the fields the ValidationError reports, in the order of its lines
ErrorLocs == [i \in 1..Len(outcome.errors) |-> outcome.errors[i].loc]

\* the ValidationError has a line for field f whose message has this text
Reports(f, text) ==
  /\ outcome.status = "ValidationError"
  /\ \E i \in 1..Len(outcome.errors) :
       outcome.errors[i].loc = f /\ outcome.errors[i].msg.text = text

\* a string of decimal digits 0-9, and not empty
IsDecimalDigits(s) == s # << >> /\ \A i \in 1..Len(s) : s[i] \in AsciiDigits

\* C1: every accumulator of a constructed DataAccumulatorsSyncEvent is
\* exactly int(h, 16) / 10^27 for its raw string h, without rounding.
C1_AccumulatorExact ==
  (model = Acc /\ ConstructedOk) =>
    \A f \in AccumulatorFields :
      LET n == PyIntHex(payload[f])
      IN n.ok /\ DecEq(outcome.record[f],
                       [sign |-> n.sign, int |-> n.int, exp |-> 0 - ScaleExp])

\* C2: an address field of LiquidationEventData or WithdrawalEventData that
\* does not start with "0x" makes the construction fail with an invalid
\* address error that identifies the field.
C2_BadAddressReported ==
  (model \in {Liq, Wd} /\ Constructed) =>
    \A f \in AddressFields(model) :
      ~startswith(payload[f], Ox) =>
        Reports(f, IF model = Liq THEN "Invalid address provided for %s"
                                  ELSE "Invalid address provided: {value}")

\* C3: every amount a constructed LiquidationEventData stores is a
\* non-negative integer decimal equal to int(h, 16) of its raw string h.
C3_AmountsNonNegative ==
  (model = Liq /\ ConstructedOk) =>
    \A f \in LiqNumberFields :
      LET n == PyIntHex(payload[f])
      IN /\ n.ok
         /\ outcome.record[f].exp = 0
         /\ DecEq(outcome.record[f], DecimalOfInt(n))
         /\ outcome.record[f].sign = 0

\* C4: a liquidation amount that is no base-16 integer makes the
\* construction of LiquidationEventData fail with the invalid number error
\* naming that field; the exception of int() reaches the caller neither as
\* it is nor as a line of the error.
C4_BadNumberReported ==
  (model = Liq /\ Constructed) =>
    \A f \in LiqNumberFields :
      ~PyIntHex(payload[f]).ok =>
        /\ outcome.status = "ValidationError"
        /\ \E i \in 1..Len(outcome.errors) :
             /\ outcome.errors[i].loc = f
             /\ outcome.errors[i].msg.text = "%s field is not a valid hexadecimal number"
             /\ outcome.errors[i].msg.field = f
        /\ \A i \in 1..Len(outcome.errors) :
             outcome.errors[i].msg.text # "invalid literal for int() with base 16: %r"

C4_Witness ==
  /\ model = Liq
  /\ Constructed
  /\ payload["debt_raw_amount"] = <<"z", "z">>
  /\ outcome.status = "ValidationError"

\* C5: WithdrawalEventData accepts an amount exactly when it is a non-empty
\* string of decimal digits, stores the integer it writes in base 10, and
\* fails for every other amount with the non-numeric amount error and with
\* no other exception.
C5_AmountRule ==
  (model = Wd /\ Constructed) =>
    IF IsDecimalDigits(payload["amount"])
    THEN (\A f \in WdAddressFields : startswith(payload[f], Ox)) =>
           /\ outcome.status = "ok"
           /\ outcome.record["amount"] =
                [sign |-> 0,
                 int |-> StripHigh(FromDigits(payload["amount"], 10, << >>)),
                 exp |-> 0]
    ELSE Reports("amount", "Amount field is not numeric")

\* whether the raw value of a field breaks the rule of the field
InvalidRaw(cls, f, v) ==
  CASE cls = Acc -> f \in AccumulatorFields /\ ~PyIntHex(v).ok
    [] cls = Liq -> IF f \in LiqAddressFields THEN ~startswith(v, Ox) ELSE ~PyIntHex(v).ok
    [] cls = Wd -> IF f \in WdAddressFields THEN ~startswith(v, Ox) ELSE ~isdigit(v)

\* the fields of the payload that break their rule, in declaration order
FailingFields == SelectSeq(Fields(model), LAMBDA f : InvalidRaw(model, f, payload[f]))

\* the amount passes isdigit and is no decimal number: Decimal() raises
AmountEscapes ==
  model = Wd /\ isdigit(payload["amount"]) /\ ~IsDecimalDigits(payload["amount"])

\* C6 as claimed: a failing construction of LiquidationEventData or
\* WithdrawalEventData reports the first failing field in declaration
\* order, and only it.
C6_ShortCircuit ==
  (model \in {Liq, Wd} /\ Constructed /\ outcome.status = "ValidationError") =>
    /\ Len(outcome.errors) = 1
    /\ outcome.errors[1].loc = Head(FailingFields)

\* C6 as amended: the fields are validated in declaration order and a
\* failing field does not stop the validation: the construction succeeds
\* when no field fails, and otherwise its ValidationError has one line for
\* every failing field, in declaration order.  Only an exception that is no
\* ValueError (the one Decimal() raises in validate_amount) ends the
\* construction at the field that raises it, and then no field is reported.
C6_AllFailuresReported ==
  Constructed =>
    IF AmountEscapes THEN outcome.status = "raised"
    ELSE IF FailingFields = << >> THEN outcome.status = "ok"
    ELSE outcome.status = "ValidationError" /\ ErrorLocs = FailingFields

C6_Witness ==
  /\ model = Liq
  /\ Constructed
  /\ outcome.status = "ValidationError"
  /\ Len(outcome.errors) >= 2

\* C7 as claimed: in every constructed record of the three kinds every
\* address field, token of DataAccumulatorsSyncEvent included, starts with
\* "0x" and is the output of the zero-padding helper.
C7_AllAddressesCanonical ==
  ConstructedOk =>
    \A f \in AddressFields(model) :
      /\ startswith(outcome.record[f], Ox)
      /\ outcome.record[f] = add_leading_zeros(payload[f])

\* C7 as amended: in every constructed LiquidationEventData and
\* WithdrawalEventData every address field starts with "0x" and is the
\* output of the zero-padding helper; token of DataAccumulatorsSyncEvent has
\* no validator and is stored as it was given.
C7_ValidatedAddressesCanonical ==
  ConstructedOk =>
    /\ model \in {Liq, Wd} =>
         \A f \in AddressFields(model) :
           /\ startswith(outcome.record[f], Ox)
           /\ outcome.record[f] = add_leading_zeros(payload[f])
    /\ model = Acc => outcome.record["token"] = payload["token"]

C7_Witness ==
  /\ model = Liq
  /\ ConstructedOk
  /\ Len(payload["debt_token"]) < 2 + AddrWidth

\* C8 as claimed: once a record is constructed, no operation changes it.
C8_Immutable == [][outcome.status = "ok" => outcome' = outcome]_vars

\* C8 as amended: the records are not frozen, and an attribute assignment
\* replaces a field without validation; the invariants the construction
\* establishes hold from the construction until the first assignment:
\* addresses of LiquidationEventData and WithdrawalEventData are padded and
\* prefixed, liquidation amounts equal int(h, 16), the withdrawal amount
\* equals its digits in base 10, and an accumulator whose integer has at
\* most Prec digits equals int(h, 16) / 10^27.
C8_InvariantsUntilAssigned ==
  ConstructedOk =>
    /\ model \in {Liq, Wd} =>
         \A f \in AddressFields(model) :
           /\ startswith(outcome.record[f], Ox)
           /\ Len(outcome.record[f]) >= 2 + AddrWidth
    /\ model = Liq =>
         \A f \in LiqNumberFields :
           DecEq(outcome.record[f], DecimalOfInt(PyIntHex(payload[f])))
    /\ model = Wd =>
         outcome.record["amount"].int = StripHigh(FromDigits(payload["amount"], 10, << >>))
    /\ model = Acc =>
         \A f \in AccumulatorFields :
           LET n == PyIntHex(payload[f])
           IN Len(n.int) <= Prec =>
                DecEq(outcome.record[f],
                      [sign |-> n.sign, int |-> n.int, exp |-> 0 - ScaleExp])

C8_Witness ==
  /\ model = Wd
  /\ ConstructedOk
  /\ Len(payload["user"]) < 2 + AddrWidth
  /\ payload["amount"] = <<"1", "1">>

\* C9: the address validators are idempotent: run on the address a
\* constructed record stores, the validator of the field accepts it and
\* returns it unchanged.
C9_Idempotent ==
  (model \in {Liq, Wd} /\ ConstructedOk) =>
    \A f \in AddressFields(model) :
      LET once == outcome.record[f]
          again == FieldResult(model, f, once)
      IN again.ok /\ again.value = once /\ startswith(once, Ox)

C9_Witness ==
  /\ model = Liq
  /\ ConstructedOk
  /\ outcome.record["debt_token"] # payload["debt_token"]

\* C10: the consumer sends one message per enqueued identifier, to that
\* identifier and in the order of the enqueues, and to nothing else: the
\* chat identifiers of its send_message calls are a prefix of the
\* identifiers enqueued.
C10_SendsFollowEnqueues ==
  /\ Len(send_calls) <= Len(enq)
  /\ \A i \in 1..Len(send_calls) : send_calls[i] = enq[i]

====
